---- MODULE Spec2Model ----
(***************************************************************************)
(* A model of the OramaCore Rust client: the administrative facade         *)
(* OramaCoreManager (manager.rs) and the data-plane facade OramaCoreClient *)
(* (client.rs), each call taken as one atomic step of a blocking           *)
(* request/response exchange with the remote service.  What the service    *)
(* answers (or whether the transport delivers at all) is an input of the   *)
(* step.                                                                   *)
(***************************************************************************)
EXTENDS Integers, Sequences, FiniteSets, TLC

VARIABLES client, manager, last, sent, lastSetBy, lastSetter

vars == <<client, manager, last, sent, lastSetBy, lastSetter>>

(* ------------------------------ bounds -------------------------------- *)

\* Callers that hold the same OramaCoreClient (behind a lock: &mut self).
NumCallers == 2

Callers == 1..NumCallers

(* --------------------------- Option<T>, Result ------------------------- *)

None == <<>>

Some(x) == <<x>>

is_some(o) == o # None

unwrap(o) == o[1]

NoValue == [unit |-> TRUE]

NoError == [type |-> "", detail |-> "", status |-> 0]

Ok(v) == [ok |-> TRUE, value |-> v, error |-> NoError]

Err(e) == [ok |-> FALSE, value |-> NoValue, error |-> e]

\* Box<dyn Error> made from a &str ("...".into()).
StrError(msg) == [type |-> "&str", detail |-> msg, status |-> 0]

\* reqwest::Error: send() failed, the body could not be read, or
\* error_for_status() saw an error status.
ReqwestError(kind, status) == [type |-> "reqwest::Error", detail |-> kind, status |-> status]

\* serde_json::Error from from_str.
SerdeError(category) == [type |-> "serde_json::Error", detail |-> category, status |-> 0]

(* ------------------------------- JSON ---------------------------------- *)

JNull == <<"null">>

JString(s) == <<"string", s>>

JNumber(n) == <<"number", n>>

JArray(items) == <<"array", items>>

JObject(members) == <<"object", members>>

IsObject(j) == j[1] = "object"

HasString(j, k) == IsObject(j) /\ k \in DOMAIN j[2] /\ j[2][k][1] = "string"

HasNumber(j, k) == IsObject(j) /\ k \in DOMAIN j[2] /\ j[2][k][1] = "number"

HasObject(j, k) == IsObject(j) /\ k \in DOMAIN j[2] /\ j[2][k][1] = "object"

\* serde's Serialize for Option<T>: None is written as null, Some(x) as x.
ser_option_string(o) == IF is_some(o) THEN JString(unwrap(o)) ELSE JNull

\* A unit enum variant (Language, EmbeddingModel) is written as its name.
ser_variant(v) == JString(v)

ser_strings(v) == JArray([i \in DOMAIN v |-> JString(v[i])])

(* ------------------------------ transport ------------------------------ *)

\* What reaches the caller of send(): nothing (the transport failed), or a
\* response with a final status and a body.  The statuses are final answers
\* (no redirect with a Location to follow).
Statuses == {200, 304, 404, 500}

CollectionIds == {"a", "b"}

ValidCollectionJson ==
    JObject([id |-> JString("a"), document_count |-> JNumber(2),
             fields |-> JObject([title |-> JObject([Scalar |-> JString("string")])])])

ErrorJson == JObject([error |-> JString("collection not found")])

\* readable = FALSE: reading the body (text()) fails; json = FALSE: the body
\* is text that is not JSON.
Bodies ==
    { [readable |-> FALSE, json |-> FALSE, value |-> JNull],
      [readable |-> TRUE, json |-> FALSE, value |-> JNull],
      [readable |-> TRUE, json |-> TRUE, value |-> ValidCollectionJson],
      [readable |-> TRUE, json |-> TRUE, value |-> ErrorJson],
      [readable |-> TRUE, json |-> TRUE, value |-> JArray(<<ValidCollectionJson>>)] }

NoResponse == [delivered |-> FALSE, status |-> 0,
               body |-> [readable |-> FALSE, json |-> FALSE, value |-> JNull]]

Outcomes ==
    {NoResponse} \cup
    {[delivered |-> TRUE, status |-> s, body |-> b] : s \in Statuses, b \in Bodies}

NoBody == JNull

Request(method, url, headers, body) ==
    [method |-> method, url |-> url, headers |-> headers, body |-> body]

\* RequestBuilder::send(): Err when nothing came back, else the response.
send(outcome) ==
    IF outcome.delivered THEN Ok(outcome) ELSE Err(ReqwestError("send", 0))

\* Response::error_for_status(): an error exactly for 4xx and 5xx.
error_for_status(response) ==
    IF response.status >= 400 /\ response.status <= 599
    THEN Err(ReqwestError("status", response.status))
    ELSE Ok(response)

\* Response::text().
text(response) ==
    IF response.body.readable THEN Ok(response.body) ELSE Err(ReqwestError("body", 0))

(* -------------------------- OramaCoreClient --------------------------- *)

ClientUrl == "http://localhost:8080"

\* Vec<OramaDocument> (OramaDocument = HashMap<String, Value>): no document,
\* or the two of test_client_insert.
DocumentVectors ==
    { <<>>,
      << [id |-> "123", text |-> "The quick brown fox jumps over the lazy dog"],
         [id |-> "456", text |-> "I love my lazy dog"] >> }

\* Vec<String> of document ids.
DocumentIdVectors == { <<>>, <<"123", "456">> }

\* serde_json::to_string(&documents): cannot fail for string keys and Values.
ser_document(d) == JObject([k \in DOMAIN d |-> JString(d[k])])

ser_documents(documents) == JArray([i \in DOMAIN documents |-> ser_document(documents[i])])

\* OramaCoreClient::new: the keys as given, no collection bound.
OramaCoreClient_new(params) ==
    [url |-> params.url, read_api_key |-> params.read_api_key,
     write_api_key |-> params.write_api_key, collection |-> None]

OramaCoreClientParams ==
    [url : {ClientUrl}, read_api_key : {Some("read_api_key")},
     write_api_key : {None, Some("write_api_key")}]

NoCollectionMsg == "No collection specified. Make sure to call set_collection() first."

NoWriteKeyMsg_copied == NoCollectionMsg

NoWriteKeyMsg == "Cannot perform write operation (delete) as there is no write_api_key set."

insert_url_swapped(url, collection) == collection \o "/collections/" \o url \o "/insert"

insert_url(url, collection) == url \o "/collections/" \o collection \o "/insert"

delete_url(url, collection) == url \o "/collections/" \o collection \o "/delete"

client_headers_bearer(write_api_key) ==
    << <<"Authorization", "Bearer " \o write_api_key>>,
       <<"Content-Type", "application/json">> >>

\* .header("Authorization", write_api_key).header("Content-Type", ...)
client_headers(write_api_key) ==
    << <<"Authorization", write_api_key>>, <<"Content-Type", "application/json">> >>

\* insert from its first line to its last: the result and the requests
\* handed to the transport.
insert_call(self, documents, outcome) ==
    IF ~is_some(self.collection)
    THEN [res |-> Err(StrError(NoCollectionMsg)), sent |-> <<>>]
    ELSE IF ~is_some(self.write_api_key)
    THEN [res |-> Err(StrError(NoWriteKeyMsg)), sent |-> <<>>]
    ELSE LET request == Request("POST", insert_url(self.url, unwrap(self.collection)),
                                client_headers(unwrap(self.write_api_key)),
                                ser_documents(documents))
             response == send(outcome)
         IN  [res |-> IF ~response.ok THEN Err(response.error)
                      ELSE LET checked == error_for_status(response.value)
                           IN  IF ~checked.ok THEN Err(checked.error) ELSE Ok(NoValue),
              sent |-> <<request>>]

\* delete, likewise.
delete_call(self, document_ids, outcome) ==
    IF ~is_some(self.collection)
    THEN [res |-> Err(StrError(NoCollectionMsg)), sent |-> <<>>]
    ELSE IF ~is_some(self.write_api_key)
    THEN [res |-> Err(StrError(NoWriteKeyMsg)), sent |-> <<>>]
    ELSE LET request == Request("POST", delete_url(self.url, unwrap(self.collection)),
                                client_headers(unwrap(self.write_api_key)),
                                ser_strings(document_ids))
             response == send(outcome)
         IN  [res |-> IF ~response.ok THEN Err(response.error)
                      ELSE LET checked == error_for_status(response.value)
                           IN  IF ~checked.ok THEN Err(checked.error) ELSE Ok(NoValue),
              sent |-> <<request>>]

\* What a call leaves to observe: its input, the client it was made on, the
\* exchange with the service (if a request went out) and its result.
Called(op, caller, input, outcome, call) ==
    /\ last' = [op |-> op, caller |-> caller, input |-> input, pre |-> client,
                exchange |-> IF call.sent = <<>> THEN NoResponse ELSE outcome,
                res |-> call.res]
    /\ sent' = call.sent

set_collection_keep_first(caller, collection_id) ==
    /\ client' = IF is_some(client.collection) THEN client
                 ELSE [client EXCEPT !.collection = Some(collection_id)]
    /\ last' = [op |-> "set_collection", caller |-> caller, input |-> collection_id,
                pre |-> client, exchange |-> NoResponse, res |-> Ok(NoValue)]
    /\ sent' = <<>>
    /\ lastSetBy' = [lastSetBy EXCEPT ![caller] = Some(collection_id)]
    /\ lastSetter' = caller
    /\ UNCHANGED manager

set_collection(caller, collection_id) ==
    /\ client' = [client EXCEPT !.collection = Some(collection_id)]
    /\ last' = [op |-> "set_collection", caller |-> caller, input |-> collection_id,
                pre |-> client, exchange |-> NoResponse, res |-> Ok(NoValue)]
    /\ sent' = <<>>
    /\ lastSetBy' = [lastSetBy EXCEPT ![caller] = Some(collection_id)]
    /\ lastSetter' = caller
    /\ UNCHANGED manager

insert(caller, documents, outcome) ==
    /\ Called("insert", caller, documents, outcome,
              insert_call(client, documents, outcome))
    /\ UNCHANGED <<client, manager, lastSetBy, lastSetter>>

delete(caller, document_ids, outcome) ==
    /\ Called("delete", caller, document_ids, outcome,
              delete_call(client, document_ids, outcome))
    /\ UNCHANGED <<client, manager, lastSetBy, lastSetter>>

(* -------------------------- OramaCoreManager -------------------------- *)

RAND_API_KEY_LENGTH == 32

\* Strings the random source can produce, by length.
RandomStrings == {"k7Qw2ZrT9mLx4VbN8cHs1YdF6gJp3KaE", "k7Qw2ZrT9m"}

\* gen_random_string(len): any alphanumeric string of that length.
gen_random_string(len) == {r \in RandomStrings : Len(r) = len}

\* OramaCoreManager::new
OramaCoreManager_new(url, master_api_key) == [url |-> url, master_api_key |-> master_api_key]

\* Language variants the repository names (the enum lives in internal::nlp).
Language == {"English", "Italian"}

EmbeddingsConfigs ==
    {[model |-> Some("E5MultilangualLarge"), document_fields |-> Some(<<"title", "content">>)]}

\* impl Default for NewCollectionParams
NewCollectionParams_default ==
    {[id |-> "", description |-> None, write_api_key |-> w, read_api_key |-> r,
      embeddings |-> None, language |-> Some("English")] :
        w \in gen_random_string(RAND_API_KEY_LENGTH),
        r \in gen_random_string(RAND_API_KEY_LENGTH)}

\* The params a caller can build: a struct literal, with or without
\* ..Default::default() for the fields it leaves out.
NewCollectionParams ==
    [id : {"", "a"},
     description : {None, Some("My random description")},
     write_api_key : {"write"} \cup {d.write_api_key : d \in NewCollectionParams_default},
     read_api_key : {"read"} \cup {d.read_api_key : d \in NewCollectionParams_default},
     language : {None} \cup {Some(l) : l \in Language},
     embeddings : {None} \cup {Some(e) : e \in EmbeddingsConfigs}]

ser_EmbeddingsConfig(e) ==
    JObject([model |-> IF is_some(e.model) THEN ser_variant(unwrap(e.model)) ELSE JNull,
             document_fields |-> IF is_some(e.document_fields)
                                 THEN ser_strings(unwrap(e.document_fields)) ELSE JNull])

\* serde_json::to_string(&collection_config) with the derived Serialize:
\* every field is written, an Option that is None as null.
ser_NewCollectionParams(p) ==
    JObject([id |-> JString(p.id),
             description |-> ser_option_string(p.description),
             write_api_key |-> JString(p.write_api_key),
             read_api_key |-> JString(p.read_api_key),
             language |-> IF is_some(p.language) THEN ser_variant(unwrap(p.language)) ELSE JNull,
             embeddings |-> IF is_some(p.embeddings)
                            THEN ser_EmbeddingsConfig(unwrap(p.embeddings)) ELSE JNull])

\* #[serde(untagged)] FieldType: the first variant whose shape matches.
de_FieldType(j) ==
    IF HasString(j, "Scalar") /\ j[2]["Scalar"][2] \in {"string", "number"}
    THEN Some([Scalar |-> j[2]["Scalar"][2]])
    ELSE IF HasString(j, "Complex") /\ j[2]["Complex"][2] = "embedding"
    THEN Some([Complex |-> "embedding"])
    ELSE None

\* The derived Deserialize of ExistingCollection; None when the value does
\* not have the shape.
de_ExistingCollection(j) ==
    IF /\ HasString(j, "id")
       /\ HasNumber(j, "document_count")
       /\ HasObject(j, "fields")
       /\ \A f \in DOMAIN j[2]["fields"][2] : is_some(de_FieldType(j[2]["fields"][2][f]))
       /\ "description" \in DOMAIN j[2] => j[2]["description"][1] \in {"string", "null"}
    THEN Some([id |-> j[2]["id"][2],
               description |-> IF HasString(j, "description")
                               THEN Some(j[2]["description"][2]) ELSE None,
               document_count |-> j[2]["document_count"][2],
               fields |-> [f \in DOMAIN j[2]["fields"][2] |->
                              unwrap(de_FieldType(j[2]["fields"][2][f]))]])
    ELSE None

\* serde_json::from_str::<ExistingCollection>
from_str_ExistingCollection(body) ==
    IF ~body.json THEN Err(SerdeError("syntax"))
    ELSE IF is_some(de_ExistingCollection(body.value))
    THEN Ok(unwrap(de_ExistingCollection(body.value)))
    ELSE Err(SerdeError("data"))

\* serde_json::from_str::<Vec<ExistingCollection>>
from_str_Vec_ExistingCollection(body) ==
    IF ~body.json THEN Err(SerdeError("syntax"))
    ELSE IF /\ body.value[1] = "array"
            /\ \A i \in DOMAIN body.value[2] : is_some(de_ExistingCollection(body.value[2][i]))
    THEN Ok([i \in DOMAIN body.value[2] |-> unwrap(de_ExistingCollection(body.value[2][i]))])
    ELSE Err(SerdeError("data"))

manager_headers(master_api_key) == << <<"Authorization", "Bearer " \o master_api_key>> >>

NewCollectionResponse_swapped(collection_config) ==
    [id |-> collection_config.id, description |-> collection_config.description,
     read_api_key |-> collection_config.write_api_key,
     write_api_key |-> collection_config.read_api_key]

\* The NewCollectionResponse create_collection builds from its argument.
NewCollectionResponse(collection_config) ==
    [id |-> collection_config.id, description |-> collection_config.description,
     read_api_key |-> collection_config.read_api_key,
     write_api_key |-> collection_config.write_api_key]

create_collection_unvalidated(self, collection_config, outcome) ==
    LET request == Request("POST", self.url \o "/v1/collections/create",
                           manager_headers(self.master_api_key)
                               \o << <<"Content-Type", "application/json">> >>,
                           ser_NewCollectionParams(collection_config))
        response == send(outcome)
    IN  [res |-> IF ~response.ok THEN Err(response.error)
                 ELSE Ok(NewCollectionResponse(collection_config)),
         sent |-> <<request>>]

\* create_collection: the result and the requests handed to the transport.
\* The response is dropped (let _ = ...send()?), its status never read.
create_collection_call(self, collection_config, outcome) ==
    IF collection_config.id = ""
    THEN [res |-> Err(StrError("Please provide a collection ID")), sent |-> <<>>]
    ELSE LET request == Request("POST", self.url \o "/v1/collections/create",
                                manager_headers(self.master_api_key)
                                    \o << <<"Content-Type", "application/json">> >>,
                                ser_NewCollectionParams(collection_config))
             response == send(outcome)
         IN  [res |-> IF ~response.ok THEN Err(response.error)
                      ELSE Ok(NewCollectionResponse(collection_config)),
              sent |-> <<request>>]

\* list_collections: send()?.text()? and then from_str; no status check.
list_collections_call(self, outcome) ==
    LET request == Request("GET", self.url \o "/v1/collections",
                           manager_headers(self.master_api_key), NoBody)
        response == send(outcome)
    IN  [res |-> IF ~response.ok THEN Err(response.error)
                 ELSE LET body == text(response.value)
                      IN  IF ~body.ok THEN Err(body.error)
                          ELSE from_str_Vec_ExistingCollection(body.value),
         sent |-> <<request>>]

\* get_collection: send()?.text()? and then from_str; no status check.
get_collection_call(self, id, outcome) ==
    LET request == Request("GET", self.url \o "/v1/collections/" \o id,
                           manager_headers(self.master_api_key), NoBody)
        response == send(outcome)
    IN  [res |-> IF ~response.ok THEN Err(response.error)
                 ELSE LET body == text(response.value)
                      IN  IF ~body.ok THEN Err(body.error)
                          ELSE from_str_ExistingCollection(body.value),
         sent |-> <<request>>]

create_collection(collection_config, outcome) ==
    /\ Called("create_collection", 0, collection_config, outcome,
              create_collection_call(manager, collection_config, outcome))
    /\ UNCHANGED <<client, manager, lastSetBy, lastSetter>>

list_collections(outcome) ==
    /\ Called("list_collections", 0, NoValue, outcome,
              list_collections_call(manager, outcome))
    /\ UNCHANGED <<client, manager, lastSetBy, lastSetter>>

get_collection(id, outcome) ==
    /\ Called("get_collection", 0, id, outcome, get_collection_call(manager, id, outcome))
    /\ UNCHANGED <<client, manager, lastSetBy, lastSetter>>

(* --------------------------- specifications ---------------------------- *)

NoCall == [op |-> "new", caller |-> 0, input |-> NoValue, pre |-> client,
           exchange |-> NoResponse, res |-> Ok(NoValue)]

Init ==
    /\ client \in {OramaCoreClient_new(p) : p \in OramaCoreClientParams}
    /\ manager = OramaCoreManager_new("http://localhost:8080", "my-master-api-key")
    /\ last = NoCall
    /\ sent = <<>>
    /\ lastSetBy = [c \in Callers |-> None]
    /\ lastSetter = 0

ClientNext ==
    \/ \E c \in Callers, id \in CollectionIds : set_collection(c, id)
    \/ \E c \in Callers, d \in DocumentVectors, o \in Outcomes : insert(c, d, o)
    \/ \E c \in Callers, d \in DocumentIdVectors, o \in Outcomes : delete(c, d, o)

ManagerNext ==
    \/ \E p \in NewCollectionParams, o \in Outcomes : create_collection(p, o)
    \/ \E o \in Outcomes : list_collections(o)
    \/ \E id \in CollectionIds, o \in Outcomes : get_collection(id, o)

\* Both facades in one process; the manager is called with the params of
\* the tests' get_client helper.
HelperParams ==
    {[d EXCEPT !.id = "a", !.read_api_key = "read_api_key",
               !.write_api_key = "write_api_key"] : d \in NewCollectionParams_default}

Next ==
    \/ ClientNext
    \/ \E p \in HelperParams, o \in Outcomes : create_collection(p, o)
    \/ \E o \in Outcomes : list_collections(o)
    \/ \E id \in CollectionIds, o \in Outcomes : get_collection(id, o)

\* One client shared by the callers.
ClientSpec == Init /\ [][ClientNext]_vars

\* One manager, every way of building the params; the client stays as the
\* tests' get_client builds it.
ManagerInit == Init /\ is_some(client.write_api_key)

ManagerSpec == ManagerInit /\ [][ManagerNext]_vars

Spec == Init /\ [][Next]_vars

(* ------------------------------ properties ----------------------------- *)

\* The spec's error kinds, as the code's error values show them.
IsValidationError(r) ==
    ~r.ok /\ r.error.type = "&str" /\ r.error.detail = "Please provide a collection ID"

IsConfigError(r) == ~r.ok /\ r.error.type = "&str"

IsHttpError(r) == ~r.ok /\ r.error.type = "reqwest::Error" /\ r.error.detail = "status"

IsSuccessStatus(status) == status >= 200 /\ status <= 299

Authorizations(request) ==
    {request.headers[i][2] : i \in {j \in DOMAIN request.headers :
                                        request.headers[j][1] = "Authorization"}}

IsWrite == last.op \in {"insert", "delete"}

IsManagerCall == last.op \in {"create_collection", "list_collections", "get_collection"}

\* C1: create_collection with an empty id returns the validation error and
\* hands no request to the transport, whatever the other fields are.
C1_EmptyIdRejected ==
    (last.op = "create_collection" /\ last.input.id = "")
        => (IsValidationError(last.res) /\ sent = <<>>)

C1_Witness ==
    /\ last.op = "create_collection"
    /\ last.input.id = ""
    /\ last.input.language = None
    /\ is_some(last.input.embeddings)
    /\ IsValidationError(last.res)
    /\ sent = <<>>

\* C2: a successful create_collection returns the id, description and keys
\* of its params, whatever the service answered.
C2_ResponseMirrorsParams ==
    (last.op = "create_collection" /\ last.res.ok)
        => /\ last.res.value.id = last.input.id
           /\ last.res.value.description = last.input.description
           /\ last.res.value.read_api_key = last.input.read_api_key
           /\ last.res.value.write_api_key = last.input.write_api_key

C2_Witness ==
    /\ last.op = "create_collection"
    /\ last.res.ok
    /\ last.exchange.delivered
    /\ last.exchange.body.value = ErrorJson
    /\ is_some(last.input.description)
    /\ last.input.read_api_key # last.input.write_api_key
    /\ last.res.value.read_api_key = last.input.read_api_key

\* C3: a create_collection whose request the service answers with a
\* non-success status returns an HttpError; success only on a success status.
C3_NonSuccessIsHttpError ==
    last.op = "create_collection" =>
        /\ (last.input.id # "" /\ last.exchange.delivered
                /\ ~IsSuccessStatus(last.exchange.status)) => IsHttpError(last.res)
        /\ last.res.ok => (last.exchange.delivered /\ IsSuccessStatus(last.exchange.status))

\* C4: insert and delete check the binding first, then the write key; each
\* failure sends nothing, and the two errors differ.
C4_PreconditionOrder ==
    IsWrite =>
        /\ ~is_some(last.pre.collection) =>
               /\ IsConfigError(last.res)
               /\ last.res.error.detail = NoCollectionMsg
               /\ sent = <<>>
        /\ (is_some(last.pre.collection) /\ ~is_some(last.pre.write_api_key)) =>
               /\ IsConfigError(last.res)
               /\ last.res.error.detail # NoCollectionMsg
               /\ sent = <<>>

C4_Witness ==
    /\ last.op = "delete"
    /\ is_some(last.pre.collection)
    /\ ~is_some(last.pre.write_api_key)
    /\ last.res = Err(StrError(NoWriteKeyMsg))
    /\ sent = <<>>

\* A failing insert or delete leaves the client as it was.
FailedWriteKeepsClient == (IsWrite /\ ~last.res.ok) => client = last.pre

\* C5: an insert or delete on a bound client with a write key that the
\* service answers with a non-2xx status returns an HttpError, and every
\* failing insert or delete leaves the client's fields unchanged.
C5_Non2xxIsHttpErrorAndFrame ==
    /\ (IsWrite /\ is_some(last.pre.collection) /\ is_some(last.pre.write_api_key)
            /\ last.exchange.delivered /\ ~IsSuccessStatus(last.exchange.status))
           => IsHttpError(last.res)
    /\ FailedWriteKeepsClient

\* C6: an insert answered with 200 succeeds with exactly one request, a POST
\* to {base}/collections/c/insert whose Authorization is the bare write key;
\* insert and delete never send more than one request; every manager request
\* carries Bearer <master key>.
C6_WireContract ==
    /\ (last.op = "insert" /\ is_some(last.pre.collection) /\ is_some(last.pre.write_api_key)
            /\ last.exchange.delivered /\ last.exchange.status = 200)
           => /\ last.res.ok
              /\ Len(sent) = 1
              /\ sent[1].method = "POST"
              /\ sent[1].url = last.pre.url \o "/collections/"
                                   \o unwrap(last.pre.collection) \o "/insert"
              /\ Authorizations(sent[1]) = {unwrap(last.pre.write_api_key)}
    /\ IsWrite => Len(sent) <= 1
    /\ IsManagerCall =>
           \A i \in DOMAIN sent :
               Authorizations(sent[i]) = {"Bearer " \o manager.master_api_key}

C6_Witness ==
    /\ last.op = "insert"
    /\ last.res.ok
    /\ last.exchange.status = 200
    /\ Len(last.input) = 2
    /\ Len(sent) = 1
    /\ sent[1].url = "http://localhost:8080/collections/a/insert"
    /\ Authorizations(sent[1]) = {"write_api_key"}

\* C7: the client is unbound exactly when set_collection was never called,
\* and otherwise bound to the id of the most recent set_collection, which
\* sends nothing; insert and delete leave the binding alone.
C7_BindingIsLastSet ==
    /\ (client.collection = None) <=> (lastSetter = 0)
    /\ lastSetter # 0 => client.collection = lastSetBy[lastSetter]
    /\ last.op = "set_collection" => (sent = <<>> /\ client.collection = Some(last.input))

C7_Witness ==
    /\ IsWrite
    /\ ~last.res.ok
    /\ lastSetBy[1] = Some("a")
    /\ lastSetBy[2] = Some("b")
    /\ lastSetter = 2
    /\ client.collection = Some("b")

\* C8: a get_collection that the service answers with a non-success status
\* fails with an HttpError, whatever the body.
C8_GetNonSuccessIsHttpError ==
    (last.op = "get_collection" /\ last.exchange.delivered
         /\ ~IsSuccessStatus(last.exchange.status)) => IsHttpError(last.res)

\* C9: the collection an insert targets is the id bound when the insert runs,
\* also when another caller bound it after the inserting caller's own
\* set_collection.
C9_InsertTargetsCurrentBinding ==
    (last.op = "insert" /\ sent # <<>>)
        => sent[1].url = last.pre.url \o "/collections/"
                             \o unwrap(last.pre.collection) \o "/insert"

C9_Witness ==
    /\ last.op = "insert"
    /\ last.caller = 1
    /\ lastSetBy[1] = Some("a")
    /\ lastSetter = 2
    /\ lastSetBy[2] = Some("b")
    /\ last.res.ok
    /\ Len(last.input) = 2
    /\ sent[1].url = "http://localhost:8080/collections/b/insert"

\* C10: a create_collection with a non-empty id and no language sends params
\* that carry the default language, English.
C10_DefaultLanguageSent ==
    (last.op = "create_collection" /\ last.input.id # "" /\ last.input.language = None)
        => (sent # <<>> /\ sent[1].body[2]["language"] = JString("English"))

====
